---------------------------- MODULE Spec2Model ----------------------------
(***************************************************************************)
(* A model of server.py: the per-connection handler (read_headers,         *)
(* parse_request, validate_path, create_response, handle_client) and the   *)
(* multi-port start-up race (attempt_server, run_server_on_available_port).*)
(*                                                                         *)
(* A request target is a sequence of tokens: "/" is the one-character      *)
(* separator, every other token is a run of characters, and adjacent       *)
(* tokens concatenate ("sub" next to "sub" is the name "subsub").          *)
(***************************************************************************)
EXTENDS Integers, Sequences, FiniteSets, TLC

VARIABLES
    pc,        \* per connection: where handle_client stands
    inp,       \* per connection: the byte stream the client sent
    io,        \* per connection: what the filesystem answered to the handler
    written,   \* per connection: the responses passed to writer.write
    closes,    \* per connection: number of writer.close() calls
    accessed,  \* per connection: the filesystem nodes read or listed
    stages,    \* per connection: the steps of the handler that ran, in order
    reads,     \* per connection: the lines readline() handed to read_headers
    doc,       \* the text of the Markdown file under the root
    task,      \* per candidate port: where attempt_server stands
    listener,  \* per candidate port: "none", "open" or "closed"
    fate,      \* per candidate port: what the environment does to the attempt
    coord,     \* where run_server_on_available_port stands
    queue,     \* the finished attempts in completion order, not yet awaited
    consumed,  \* the attempts whose result the coordinator has awaited
    serving    \* the ports whose listener was promoted to serve_forever

vars == <<pc, inp, io, written, closes, accessed, stages, reads, doc,
          task, listener, fate, coord, queue, consumed, serving>>
connVars == <<pc, inp, io, written, closes, accessed, stages, reads>>
raceVars == <<task, listener, fate, coord, queue, consumed, serving>>

---------------------------------------------------------------------------
(* Bounds *)

MaxTargetLen == 4
ConcTargetLen == 2
MaxPorts == 3
MaxHeaderLines == 2
MaxDocLines == 3

Conns == {1, 2}

---------------------------------------------------------------------------
(* The filesystem the server runs on.  A node is its absolute path, a      *)
(* sequence of names; ROOT is one directory of it.                         *)

ROOT == <<"srv">>

Dirs == {<<>>, <<"srv">>, <<"srv", "sub">>, <<"srv", "sub", "in">>}

Files == {<<"secret">>, <<"srv", "a.txt">>, <<"srv", "sub", "a.txt">>,
          <<"srv", "sub", "b.md">>, <<"srv", "sub", "Zed">>,
          <<"srv", "sub", "in", "B.MD">>}

\* srv/out is a symbolic link to the parent of ROOT, srv/sub/in/l.md one to
\* the file srv/a.txt.
SymlinkTarget(p) ==
    CASE p = <<"srv", "out">>                -> <<>>
      [] p = <<"srv", "sub", "in", "l.md">>  -> <<"srv", "a.txt">>
      [] OTHER                               -> p

Exists(p) == p \in Dirs \cup Files

\* The Markdown file as it is while other files are asked for.
Readme == << <<"#", " ", "T">> >>

\* The content of a file; that of the Markdown file is its lines.
FileBytes(p) ==
    CASE p = <<"secret">>              -> <<"k", "e", "y">>
      [] p = <<"srv", "a.txt">>        -> <<"h", "i">>
      [] p = <<"srv", "sub", "a.txt">> -> <<"s">>
      [] p = <<"srv", "sub", "b.md">>  -> doc
      [] p = <<"srv", "sub", "in", "B.MD">> -> Readme
      [] OTHER                         -> <<>>

---------------------------------------------------------------------------
(* Token sequences *)

NUL == "<NUL>"

Last(s) == s[Len(s)]

RECURSIVE LStrip(_)
LStrip(p) == IF p # <<>> /\ Head(p) = "/" THEN LStrip(Tail(p)) ELSE p

EndsWithSlash(p) == p # <<>> /\ Last(p) = "/"

\* The names between the separators, empty names dropped (pathlib's parsing).
RECURSIVE SegmentsFrom(_, _)
SegmentsFrom(p, cur) ==
    IF p = <<>> THEN (IF cur = "" THEN <<>> ELSE <<cur>>)
    ELSE IF Head(p) = "/"
         THEN (IF cur = "" THEN <<>> ELSE <<cur>>) \o SegmentsFrom(Tail(p), "")
         ELSE SegmentsFrom(Tail(p), cur \o Head(p))

Segments(p) == SegmentsFrom(p, "")

IsPrefix(a, b) == Len(a) <= Len(b) /\ SubSeq(b, 1, Len(a)) = a

Parent(p) == IF p = <<>> THEN <<>> ELSE SubSeq(p, 1, Len(p) - 1)


---------------------------------------------------------------------------
(* What a client may send.  A stream is the lines readline() hands to      *)
(* read_headers, in order, and then end of file.  A line is known by its   *)
(* whitespace-delimited tokens and its length in bytes.                    *)

ALLOWED_METHODS == {"GET", "HEAD"}
MAX_HEADER_SIZE == 8192

Tokens == {"/", "..", "%00", "sub", "a.txt", "out", "secret"}
ConcTokens == {"/", "..", "sub", "a.txt"}

Methods == {"GET", "HEAD", "POST", "get"}
ConcMethods == {"GET", "HEAD", "POST"}

Versions == {"HTTP/1.1", "HTTP/1.0"}
ConcVersions == {"HTTP/1.1"}

\* A target is one whitespace-delimited token of the request line: never empty.
TargetsOf(toks, n) == UNION {[1..k -> toks] : k \in 1..n}

Line(ntok, method, target, version, size) ==
    [ntok |-> ntok, method |-> method, target |-> target, version |-> version,
     size |-> size]

\* b"\r\n", the line that ends the header block.
CRLF == Line(0, "", <<>>, "", 2)

\* A line of white space that is not b"\r\n", such as b" \r\n".
BlankLine == Line(0, "", <<>>, "", 3)

\* b"GET\r\n" and b"GET /\r\n"
OneTokenLine == Line(1, "GET", <<>>, "", 5)
TwoTokenLine == Line(2, "GET", <<"/">>, "", 7)

RequestLineSize == 16

RequestLine(method, target, version) ==
    Line(3, method, target, version, RequestLineSize)

\* A header line such as b"Host: example\r\n", size bytes long.
HeaderLine(size) == Line(2, "Host:", <<"example">>, "", size)

HeaderLineSizes == {100, 4096, 8176}

HeaderBlocks ==
    UNION {[1..k -> {HeaderLine(z) : z \in HeaderLineSizes}] : k \in 0..MaxHeaderLines}

\* Nothing, the bare terminator, a first line longer than the budget, and a
\* connection reset by the peer.
ControlStreams ==
    {[kind |-> "eof", lines |-> <<>>],
     [kind |-> "blank", lines |-> <<CRLF>>],
     [kind |-> "oversize", lines |-> <<HeaderLine(MAX_HEADER_SIZE + 1)>>],
     [kind |-> "reset", lines |-> <<>>]}

ShortStreams ==
    {[kind |-> "text", lines |-> <<l, CRLF>>] :
        l \in {BlankLine, OneTokenLine, TwoTokenLine}}

FullStreams(toks, n, methods, versions) ==
    {[kind |-> "text", lines |-> <<RequestLine(m, t, v), CRLF>>] :
        m \in methods, t \in TargetsOf(toks, n), v \in versions}

\* A line of white space in front of what would be the first line.
LedStreams ==
    {[kind |-> "text", lines |-> <<BlankLine, l, CRLF>>] :
        l \in {BlankLine, TwoTokenLine} \cup
              {RequestLine(m, <<"/">>, "HTTP/1.1") : m \in Methods}}

\* A request line followed by header lines, ended by the terminator or by
\* end of file.
FramedStreams ==
    {[kind |-> "text",
      lines |-> <<RequestLine("GET", <<"/">>, "HTTP/1.1")>> \o h \o e] :
        h \in HeaderBlocks, e \in {<<>>, <<CRLF>>}}

Streams == ControlStreams \cup ShortStreams \cup LedStreams \cup FramedStreams
             \cup FullStreams(Tokens, MaxTargetLen, Methods, Versions)

ConcStreams == ControlStreams \cup ShortStreams
             \cup FullStreams(ConcTokens, ConcTargetLen, ConcMethods, ConcVersions)

IoOutcomes == {"ok", "PermissionError", "OSError"}

---------------------------------------------------------------------------
(* read_headers and parse_request *)

\* The loop of read_headers from line i on: the header text gathered (the
\* lines before the terminator), or the exception raised, and the number of
\* lines taken from the connection.
\* The loop testing the budget once, when the header block has ended.
RECURSIVE ReadLoop_late(_, _, _, _)
ReadLoop_late(lines, i, total_size, headers) ==
    IF i > Len(lines) \/ lines[i] = CRLF
    THEN LET n == IF i > Len(lines) THEN i - 1 ELSE i
         IN  IF total_size > MAX_HEADER_SIZE
             THEN [raises |-> "ValueError", text |-> <<>>, reads |-> n]
             ELSE [raises |-> "", text |-> headers, reads |-> n]
    ELSE ReadLoop_late(lines, i + 1, total_size + lines[i].size,
                       Append(headers, lines[i]))

RECURSIVE ReadLoop(_, _, _, _)
ReadLoop(lines, i, total_size, headers) ==
    IF i > Len(lines)
    THEN [raises |-> "", text |-> headers, reads |-> i - 1]
    ELSE IF total_size + lines[i].size > MAX_HEADER_SIZE
         THEN [raises |-> "ValueError", text |-> <<>>, reads |-> i]
         ELSE IF lines[i] = CRLF
              THEN [raises |-> "", text |-> headers, reads |-> i]
              ELSE ReadLoop(lines, i + 1, total_size + lines[i].size,
                            Append(headers, lines[i]))

read_headers(stream) ==
    IF stream.kind = "reset"
    THEN [raises |-> "ConnectionResetError", text |-> <<>>, reads |-> 0]
    ELSE ReadLoop(stream.lines, 1, 0, <<>>)

unquote(p) == [i \in 1..Len(p) |-> IF p[i] = "%00" THEN NUL ELSE p[i]]

RECURSIVE StripQuery(_)
StripQuery(p) ==
    IF p = <<>> \/ Head(p) = "?" THEN <<>> ELSE <<Head(p)>> \o StripQuery(Tail(p))

Upper(m) == CASE m = "get" -> "GET" [] m = "head" -> "HEAD" [] m = "post" -> "POST" [] OTHER -> m

NormalizePath(target) ==
    LET path == StripQuery(unquote(target))
    IN  IF path = <<"/">> THEN path ELSE LStrip(path)

\* req.strip().splitlines(): the lines of the text without the lines of
\* white space at its start and at its end.
RECURSIVE StripLines(_)
StripLines(text) ==
    IF text = <<>> THEN <<>>
    ELSE IF Head(text).ntok = 0 THEN StripLines(Tail(text))
    ELSE IF Last(text).ntok = 0 THEN StripLines(SubSeq(text, 1, Len(text) - 1))
    ELSE text

NoRequest == [ok |-> FALSE, method |-> "", path |-> <<>>, version |-> ""]

\* parse_request reading a request line of two tokens as one without version.
parse_request_lenient(text) ==
    LET lines == StripLines(text)
    IN  IF lines = <<>> THEN NoRequest
        ELSE IF lines[1].ntok < 2 THEN NoRequest
        ELSE [ok |-> TRUE, method |-> Upper(lines[1].method),
              path |-> NormalizePath(lines[1].target), version |-> "HTTP/1.0"]

\* The request dict, or ok = FALSE where parse_request raises ValueError.
parse_request(text) ==
    LET lines == StripLines(text)
    IN  IF lines = <<>> THEN NoRequest
        ELSE IF lines[1].ntok < 3 THEN NoRequest
        ELSE [ok |-> TRUE, method |-> Upper(lines[1].method),
              path |-> NormalizePath(lines[1].target), version |-> lines[1].version]

---------------------------------------------------------------------------
(* validate_path *)

None == <<"<None>">>

HasNul(p) == \E i \in 1..Len(p) : p[i] = NUL

\* pathlib's resolve(): ".." pops, a symbolic link is replaced by its target.
RECURSIVE Resolve(_, _)
Resolve(cur, segs) ==
    IF segs = <<>> THEN cur
    ELSE IF Head(segs) = ".." THEN Resolve(Parent(cur), Tail(segs))
    ELSE Resolve(SymlinkTarget(Append(cur, Head(segs))), Tail(segs))

is_relative_to(p, base) == IsPrefix(base, p)

\* validate_path without the containment check.
validate_path_unchecked(request_path) ==
    LET stripped == LStrip(request_path)
    IN  IF HasNul(stripped) THEN None
        ELSE LET requested == Resolve(ROOT, Segments(stripped))
             IN  IF Exists(requested) THEN requested ELSE None

validate_path(request_path) ==
    LET stripped == LStrip(request_path)
    IN  IF HasNul(stripped) THEN None
        ELSE LET requested == Resolve(ROOT, Segments(stripped))
             IN  IF ~is_relative_to(requested, ROOT) THEN None
                 ELSE IF Exists(requested) THEN requested ELSE None

---------------------------------------------------------------------------
(* generate_directory_listing: the rows, as data *)

Symlinks == {<<"srv", "out">>, <<"srv", "sub", "in", "l.md">>}

Children(path) ==
    {n \in Dirs \cup Files \cup Symlinks : n # <<>> /\ Parent(n) = path}

\* item.is_dir() follows symbolic links.
is_dir(p) == SymlinkTarget(p) \in Dirs

\* str.lower() on the strings that have an upper-case letter.
Lower(name) ==
    CASE name = "Zed"  -> "zed"
      [] name = "T"    -> "t"
      [] name = "B.MD" -> "b.md"
      [] name = ".MD"  -> ".md"
      [] OTHER         -> name

\* The place of a string in the order Python compares strings by.
LexRank(str) ==
    CASE str = "B.MD"   -> 0
      [] str = "Zed"    -> 1
      [] str = "a.txt"  -> 2
      [] str = "b.md"   -> 3
      [] str = "in"     -> 4
      [] str = "l.md"   -> 5
      [] str = "out"    -> 6
      [] str = "secret" -> 7
      [] str = "srv"    -> 8
      [] str = "sub"    -> 9
      [] str = "zed"    -> 10
      [] OTHER          -> 11

\* The place of name.lower() in lexical order.
NameRank(name) == LexRank(Lower(name))

\* The sort comparing the names as they are spelled.
SortsBefore_cased(a, b) ==
    \/ is_dir(a) /\ ~is_dir(b)
    \/ is_dir(a) = is_dir(b) /\ LexRank(Last(a)) < LexRank(Last(b))

\* sorted(..., key=lambda p: (not p.is_dir(), p.name.lower()))
SortsBefore(a, b) ==
    \/ is_dir(a) /\ ~is_dir(b)
    \/ is_dir(a) = is_dir(b) /\ NameRank(Last(a)) < NameRank(Last(b))

RECURSIVE Sorted(_)
Sorted(items) ==
    IF items = {} THEN <<>>
    ELSE LET first == CHOOSE a \in items : \A b \in items \ {a} : SortsBefore(a, b)
         IN  <<first>> \o Sorted(items \ {first})

EntryRow(item) ==
    [name |-> Last(item), isdir |-> is_dir(item), parent |-> FALSE,
     size |-> IF is_dir(item) THEN 0 ELSE Len(FileBytes(SymlinkTarget(item)))]

ParentRow == [name |-> "..", isdir |-> TRUE, parent |-> TRUE, size |-> 0]

generate_directory_listing(path) ==
    (IF path # ROOT THEN <<ParentRow>> ELSE <<>>)
      \o [i \in 1..Cardinality(Children(path)) |-> EntryRow(Sorted(Children(path))[i])]

---------------------------------------------------------------------------
(* create_response and the fixed responses of handle_client *)

Wire(status, headers, body) == [status |-> status, headers |-> headers, body |-> body]

R431 == Wire(<<"HTTP/1.1", "431", "Request Header Fields Too Large">>, <<>>, <<>>)
R400 == Wire(<<"HTTP/1.1", "400", "Bad Request">>, <<>>, <<>>)
R405 == Wire(<<"HTTP/1.1", "405", "Method Not Allowed">>, <<<<"Allow", "GET, HEAD">>>>, <<>>)
R404 == Wire(<<"HTTP/1.1", "404", "Not Found">>, <<>>, <<>>)
R403 == Wire(<<"HTTP/1.1", "403", "Forbidden">>, <<>>, <<>>)
R500 == Wire(<<"HTTP/1.1", "500", "Internal Server Error">>, <<>>, <<>>)

R301(request) ==
    LET redirect_path == IF request.path # <<"/">>
                         THEN <<"/">> \o request.path \o <<"/">>
                         ELSE <<"/">>
    IN  Wire(<<request.version, "301", "Moved Permanently">>,
             <<<<"Location", redirect_path>>, <<"Connection", "close">>>>, <<>>)

\* mimetypes.guess_type(request["path"]): decided by the end of the path string.
guess_type(path) ==
    IF path = <<>> THEN ""
    ELSE CASE Last(path) = "a.txt" -> "text/plain"
           [] Last(path) = "b.md"  -> "text/markdown"
           [] Last(path) = "B.MD"  -> "text/markdown"
           [] Last(path) = "l.md"  -> "text/markdown"
           [] OTHER                -> ""

IsText(mime) == mime \in {"text/plain", "text/markdown"}

content_type(request, is_directory, override_content_type) ==
    IF override_content_type # "" THEN override_content_type
    ELSE IF is_directory THEN "text/html; charset=utf-8"
    ELSE LET mime == IF guess_type(request.path) # ""
                     THEN guess_type(request.path) ELSE "application/octet-stream"
         IN  IF IsText(mime) THEN mime \o "; charset=utf-8" ELSE mime

\* The pair (headers, body) create_response returns.
create_response(request, content, is_directory, override_content_type) ==
    [status  |-> <<request.version, "200", "OK">>,
     headers |-> <<<<"Server", "AsyncFileServer/1.0">>,
                   <<"Connection", "close">>,
                   <<"X-Content-Type-Options", "nosniff">>,
                   <<"Content-Type",
                     content_type(request, is_directory, override_content_type)>>,
                   <<"Content-Length", ToString(Len(content))>>>>,
     body    |-> content]

\* The body sent whatever the method.
SendBody_always(request, built) == Wire(built.status, built.headers, built.body)

\* response = headers + (b"" if request["method"] == "HEAD" else body)
SendBody(request, built) ==
    Wire(built.status, built.headers,
         IF request.method = "HEAD" THEN <<>> ELSE built.body)

---------------------------------------------------------------------------
(* Markdown text.  The file is its lines (str.splitlines) and a line is a  *)
(* sequence of atoms: runs of characters that no pattern of                *)
(* render_markdown splits.  The atoms of a line concatenate to its text.   *)

Whitespace == {" ", "\t"}

\* The three backquotes that delimit a fence, written with the quote that a
\* string of this language can hold.
FENCE == "'''"

MdLines ==
    {<<FENCE>>,                                  \* fence delimiter
     <<FENCE, "python">>,                        \* fence delimiter with language
     <<"---">>,                                  \* horizontal rule
     <<"#", " ", "T">>,                          \* heading
     <<"-", " ", "a">>,                          \* list item
     <<">", " ", "q">>,                          \* blockquote
     <<"x", "\t", "=", " ", "1">>,               \* text; Python that tokenizes
     <<"x", " ", "=", " ", "(">>,                \* text; Python that does not
     <<>>,                                       \* blank line
     <<"[", "l", "]", ":", " ", "u">>,           \* definition of label l
     <<"[", " ", "l", " ", "]", ":", " ", "v">>, \* definition of label " l "
     <<"[", "t", "]", "[", "l", "]">>,           \* reference link to l
     <<"[", "t", "]", "[", " ", "l", " ", "]">>} \* reference link to " l "

Docs == UNION {[1..k -> MdLines] : k \in 0..MaxDocLines}

RECURSIVE Concat(_)
Concat(atoms) == IF atoms = <<>> THEN "" ELSE Head(atoms) \o Concat(Tail(atoms))

\* "\n".join(lines)
RECURSIVE JoinLines(_)
JoinLines(lines) ==
    IF lines = <<>> THEN ""
    ELSE IF Len(lines) = 1 THEN Concat(lines[1])
    ELSE Concat(lines[1]) \o "\n" \o JoinLines(Tail(lines))

RECURSIVE LStripWs(_)
LStripWs(atoms) ==
    IF atoms # <<>> /\ Head(atoms) \in Whitespace THEN LStripWs(Tail(atoms)) ELSE atoms

RECURSIVE RStripWs(_)
RStripWs(atoms) ==
    IF atoms # <<>> /\ Last(atoms) \in Whitespace
    THEN RStripWs(SubSeq(atoms, 1, Len(atoms) - 1)) ELSE atoms

\* str.strip()
StripWs(atoms) == RStripWs(LStripWs(atoms))

\* The index of the first atom equal to a at or after from, 0 if none.
IndexOf(atoms, a, from) ==
    IF \E i \in from..Len(atoms) : atoms[i] = a
    THEN CHOOSE i \in from..Len(atoms) :
             atoms[i] = a /\ \A j \in from..(i - 1) : atoms[j] # a
    ELSE 0

\* The atoms before the first white space: what \S+ matches at the start.
RECURSIVE FirstWord(_)
FirstWord(atoms) ==
    IF atoms = <<>> \/ Head(atoms) \in Whitespace THEN <<>>
    ELSE <<Head(atoms)>> \o FirstWord(Tail(atoms))

\* re.match(r'^\s*\[([^\]]+)\]:\s*(\S+)', line)
RefDefMatch(line) ==
    LET rest == LStripWs(line)
        q == IndexOf(rest, "]", 2)
        after == LStripWs(SubSeq(rest, q + 2, Len(rest)))
    IN  IF /\ rest # <<>> /\ rest[1] = "["
           /\ q >= 3 /\ Len(rest) > q /\ rest[q + 1] = ":"
           /\ after # <<>>
        THEN [ok |-> TRUE, label |-> SubSeq(rest, 2, q - 1), url |-> FirstWord(after)]
        ELSE [ok |-> FALSE, label |-> <<>>, url |-> <<>>]

\* ref_links after the first pass: label.strip() -> url, the last
\* definition of a label wins.
RECURSIVE CollectRefs(_)
CollectRefs(lines) ==
    IF lines = <<>> THEN [k \in {} |-> ""]
    ELSE LET m == RefDefMatch(Last(lines))
             before == CollectRefs(SubSeq(lines, 1, Len(lines) - 1))
         IN  IF m.ok
             THEN (Concat(StripWs(m.label)) :> Concat(m.url)) @@ before
             ELSE before

\* cleaned_lines: the lines that are no definition.
CleanedLines(lines) == SelectSeq(lines, LAMBDA l : ~RefDefMatch(l).ok)

\* ref_links.get(id, id)
RefGet(ref_links, id) == IF id \in DOMAIN ref_links THEN ref_links[id] ELSE id

\* A piece of the text inside a block: plain text, a list item, an anchor
\* with its href, or a span with its class.
Piece(kind, attr, text) == [kind |-> kind, attr |-> attr, text |-> text]

\* One entry of html_lines.
Block(tag, attr, body) == [tag |-> tag, attr |-> attr, body |-> body]

---------------------------------------------------------------------------
(* highlight_python_code *)

Tok(type, string, srow, scol, erow, ecol) ==
    [type |-> type, string |-> string,
     srow |-> srow, scol |-> scol, erow |-> erow, ecol |-> ecol]

TokType(atom) ==
    IF atom = "1" THEN "NUMBER"
    ELSE IF atom \in {"x", "a", "q", "t", "l", "u", "v", "T", "python"} THEN "NAME"
    ELSE "OP"

kwlist == {"if", "else", "def", "return", "import"}

\* The tokens of one line before its end-of-line token; a "#" starts a
\* comment that runs to the end of the line.
RECURSIVE LineTokens(_, _, _, _)
LineTokens(line, k, col, row) ==
    IF k > Len(line) THEN <<>>
    ELSE IF line[k] \in Whitespace THEN LineTokens(line, k + 1, col + 1, row)
    ELSE IF line[k] = "#"
         THEN LET s == Concat(SubSeq(line, k, Len(line)))
              IN  <<Tok("COMMENT", s, row, col, row, col + Len(s))>>
         ELSE <<Tok(TokType(line[k]), line[k], row, col, row, col + Len(line[k]))>>
                \o LineTokens(line, k + 1, col + Len(line[k]), row)

\* Brackets opened minus brackets closed on the line, outside comments.
RECURSIVE ParenDelta(_)
ParenDelta(line) ==
    IF line = <<>> \/ Head(line) = "#" THEN 0
    ELSE ParenDelta(Tail(line))
           + (IF Head(line) \in {"(", "[", "{"} THEN 1 ELSE 0)
           - (IF Head(line) \in {")", "]", "}"} THEN 1 ELSE 0)

\* The tokens of the lines r..phys, where the text has n lines joined by
\* "\n"; parenlev brackets are open at the start of line r.
RECURSIVE LinesTokens(_, _, _, _)
LinesTokens(lines, r, parenlev, phys) ==
    IF r > phys THEN <<>>
    ELSE LET body == LineTokens(lines[r], 1, 0, r)
             lev == parenlev + ParenDelta(lines[r])
             len == Len(Concat(lines[r]))
             nl == IF r < Len(lines) THEN "\n" ELSE ""
             code == \E i \in 1..Len(body) : body[i].type # "COMMENT"
             width == IF r < Len(lines) THEN 1 ELSE 0
             eol == IF lev > 0 \/ ~code
                    THEN Tok("NL", nl, r, len, r, len + width)
                    ELSE Tok("NEWLINE", nl, r, len, r, len + 1)
         IN  body \o <<eol>> \o LinesTokens(lines, r + 1, lev, phys)

RECURSIVE TotalDelta(_)
TotalDelta(lines) ==
    IF lines = <<>> THEN 0 ELSE ParenDelta(Head(lines)) + TotalDelta(Tail(lines))

\* list(tokenize.generate_tokens(...)) on the joined lines: the tokens, or
\* TokenError when a bracket is open at the end of the text.
generate_tokens(lines) ==
    LET n == Len(lines)
        phys == IF n > 0 /\ lines[n] = <<>> THEN n - 1 ELSE n
    IN  IF TotalDelta(lines) # 0
        THEN [raises |-> "TokenError", tokens |-> <<>>]
        ELSE [raises |-> "",
              tokens |-> LinesTokens(lines, 1, 0, phys)
                           \o <<Tok("ENDMARKER", "", phys + 1, 0, phys + 1, 0)>>]

Fill(text, k) == [j \in 1..k |-> Piece("text", "", text)]

\* The span, or the bare text, result gets for one token.
Highlighted(t) ==
    CASE t.type = "STRING"  -> Piece("span", "string", t.string)
      [] t.type = "NUMBER"  -> Piece("span", "number", t.string)
      [] t.type = "COMMENT" -> Piece("span", "comment", t.string)
      [] t.type = "NAME" /\ t.string \in kwlist -> Piece("span", "keyword", t.string)
      [] OTHER              -> Piece("text", "", t.string)

\* The loop over the tokens from token i on, the last token having ended at
\* (prev_row, prev_col).
RECURSIVE Rebuild(_, _, _, _)
Rebuild(tokens, i, prev_row, prev_col) ==
    IF i > Len(tokens) THEN <<>>
    ELSE LET t == tokens[i]
             rows == IF prev_row < t.srow THEN t.srow - prev_row ELSE 0
             col == IF rows > 0 THEN 0 ELSE prev_col
             cols == IF col < t.scol THEN t.scol - col ELSE 0
         IN  Fill("\n", rows) \o Fill(" ", cols) \o <<Highlighted(t)>>
               \o Rebuild(tokens, i + 1, t.erow, t.ecol)

\* The pieces of the highlighted text, or the exception of the tokenizer,
\* which highlight_python_code does not catch.
highlight_python_code(code) ==
    LET g == generate_tokens(code)
    IN  IF g.raises # "" THEN [raises |-> g.raises, pieces |-> <<>>]
        ELSE [raises |-> "", pieces |-> Rebuild(g.tokens, 1, 1, 0)]

---------------------------------------------------------------------------
(* render_markdown *)

\* re.sub(r"\[([^\]]+)\]\[([^\]]+)\]", ...) on the atoms of a line: the
\* pieces of the line with every reference link made an anchor.
RECURSIVE SubRefLinks(_, _)
SubRefLinks(line, ref_links) ==
    IF line = <<>> THEN <<>>
    ELSE LET q == IndexOf(line, "]", 2)
             r == IF q = 0 THEN 0 ELSE IndexOf(line, "]", q + 2)
         IN  IF /\ line[1] = "[" /\ q >= 3
                /\ Len(line) > q /\ line[q + 1] = "["
                /\ r >= q + 3
             THEN <<Piece("a", RefGet(ref_links, Concat(SubSeq(line, q + 2, r - 1))),
                          Concat(SubSeq(line, 2, q - 1)))>>
                    \o SubRefLinks(SubSeq(line, r + 1, Len(line)), ref_links)
             ELSE <<Piece("text", "", line[1])>> \o SubRefLinks(Tail(line), ref_links)

\* re.match(r"^\s*(\*|-|_){3,}\s*$", line)
IsRule(line) ==
    LET core == StripWs(line)
    IN  /\ \A i \in 1..Len(core) : core[i] \in {"-", "--", "---", "*", "***", "_", "___"}
        /\ Len(Concat(core)) >= 3

\* re.match(r"^(#{1,6})\s+(.*)", line)
IsHeading(line) ==
    /\ Len(line) >= 2
    /\ line[1] \in {"#", "##", "###", "####", "#####", "######"}
    /\ line[2] \in Whitespace

StartsWith(line, first, second) ==
    Len(line) >= 2 /\ line[1] = first /\ line[2] = second

\* The locals of render_markdown at the top of its loop.
RenderStart ==
    [html_lines |-> <<>>, in_code_block |-> FALSE, in_list |-> FALSE,
     code_block |-> <<>>, list_buffer |-> <<>>, code_lang |-> "", raises |-> ""]

Emit(st, block) == [st EXCEPT !.html_lines = Append(@, block)]

ListBlock(st) == Block("ul", "", st.list_buffer)

\* One pass of the loop body over a line.
RenderLine(st, line, ref_links) ==
    IF st.raises # "" THEN st
    ELSE IF line # <<>> /\ line[1] = FENCE
    THEN IF ~st.in_code_block
         THEN [st EXCEPT !.in_code_block = TRUE, !.code_block = <<>>,
                         !.code_lang = IF Len(line) >= 2 /\ TokType(line[2]) = "NAME"
                                       THEN Lower(line[2]) ELSE ""]
         ELSE IF st.code_lang = "python"
              THEN LET h == highlight_python_code(st.code_block)
                   IN  IF h.raises # ""
                       THEN [st EXCEPT !.in_code_block = FALSE, !.raises = h.raises]
                       ELSE Emit([st EXCEPT !.in_code_block = FALSE],
                                 Block("pre", st.code_lang, h.pieces))
              ELSE Emit([st EXCEPT !.in_code_block = FALSE],
                        Block("pre", st.code_lang,
                              <<Piece("text", "", JoinLines(st.code_block))>>))
    ELSE IF st.in_code_block
    THEN [st EXCEPT !.code_block = Append(@, line)]
    ELSE IF IsRule(line)
    THEN Emit(st, Block("hr", "", <<>>))
    ELSE IF IsHeading(line)
    THEN Emit(st, Block("h", line[1],
                        <<Piece("text", "", Concat(LStripWs(Tail(line))))>>))
    ELSE IF StartsWith(line, "-", " ")
    THEN [st EXCEPT !.in_list = TRUE,
                    !.list_buffer =
                        Append(IF st.in_list THEN @ ELSE <<>>,
                               Piece("li", "", Concat(StripWs(SubSeq(line, 3, Len(line))))))]
    ELSE LET flushed == IF st.in_list
                        THEN [Emit(st, ListBlock(st)) EXCEPT
                                 !.in_list = FALSE, !.list_buffer = <<>>]
                        ELSE st
         IN  IF StartsWith(line, ">", " ")
             THEN Emit(flushed,
                       Block("blockquote", "",
                             <<Piece("text", "",
                                     Concat(StripWs(SubSeq(line, 3, Len(line)))))>>))
             ELSE IF StripWs(line) # <<>>
                  THEN Emit(flushed, Block("p", "", SubRefLinks(line, ref_links)))
                  ELSE Emit(flushed, Block("", "", <<>>))

\* The loop over the first k lines.
RECURSIVE RenderLines(_, _, _)
RenderLines(lines, k, ref_links) ==
    IF k = 0 THEN RenderStart
    ELSE RenderLine(RenderLines(lines, k - 1, ref_links), lines[k], ref_links)

\* Converted closing a fence that is still open at the end of the file, as
\* if its delimiter had come.
Converted_closing(md_lines) ==
    LET AtEnd(st) ==
            [raises |-> st.raises,
             html_lines |->
                 (IF st.in_list
                  THEN Append(st.html_lines, ListBlock(st))
                  ELSE st.html_lines)
                 \o (IF st.in_code_block
                     THEN <<Block("pre", st.code_lang,
                                  <<Piece("text", "", JoinLines(st.code_block))>>)>>
                     ELSE <<>>)]
        Loop(lines) == RenderLines(lines, Len(lines), CollectRefs(md_lines))
    IN  AtEnd(Loop(CleanedLines(md_lines)))

\* html_lines at the end of render_markdown, or the exception that left it.
Converted(md_lines) ==
    LET AtEnd(st) ==
            [raises |-> st.raises,
             html_lines |-> IF st.in_list
                            THEN Append(st.html_lines, ListBlock(st))
                            ELSE st.html_lines]
        Loop(lines) == RenderLines(lines, Len(lines), CollectRefs(md_lines))
    IN  AtEnd(Loop(CleanedLines(md_lines)))

\* The page: render_page("Markdown Render", body) around the converted text.
render_markdown(md_lines) ==
    LET Page(c) ==
            [raises |-> c.raises,
             html |-> <<Block("page", "Markdown Render", <<>>)>> \o c.html_lines]
    IN  Page(Converted(md_lines))

---------------------------------------------------------------------------
(* handle_client *)

\* pathlib's suffix of the last name of a path.
PathSuffix(p) ==
    IF p = <<>> THEN ""
    ELSE CASE Last(p) = "a.txt" -> ".txt"
           [] Last(p) = "b.md"  -> ".md"
           [] Last(p) = "B.MD"  -> ".MD"
           [] Last(p) = "l.md"  -> ".md"
           [] OTHER             -> ""

\* The suffix as the file spells it.
Suffix_cased(p) == PathSuffix(p)

\* resolved_path.suffix.lower()
Suffix(p) == Lower(PathSuffix(p))

\* What one step of the handler leaves behind: the responses given to
\* writer.write, whether an exception escaped to the outer handler, and the
\* filesystem nodes it read or listed.
Outcome(writes, raised, nodes) ==
    [writes |-> writes, raised |-> raised, accessed |-> nodes]

\* An outcome together with the steps that led to it.
After(steps, outcome) ==
    [writes |-> outcome.writes, raised |-> outcome.raised,
     accessed |-> outcome.accessed, stages |-> steps]

\* The branch for an existing directory.
ServeDirectory(request, resolved_path, ioOut) ==
    IF ~EndsWithSlash(request.path)
    THEN Outcome(<<R301(request)>>, FALSE, {})
    ELSE IF ioOut # "ok"
         THEN Outcome(<<>>, TRUE, {resolved_path})
         ELSE Outcome(<<SendBody(request,
                          create_response(request,
                              generate_directory_listing(resolved_path), TRUE, ""))>>,
                      FALSE, {resolved_path})

\* The branch for an existing file.
ServeFile(request, resolved_path, ioOut) ==
    IF ioOut = "PermissionError" THEN Outcome(<<R403>>, FALSE, {resolved_path})
    ELSE IF ioOut # "ok" THEN Outcome(<<R500>>, FALSE, {resolved_path})
    ELSE IF Suffix(resolved_path) = ".md"
         THEN LET Rendered(rendered) ==
                      IF rendered.raises # ""
                      THEN Outcome(<<R500>>, FALSE, {resolved_path})
                      ELSE Outcome(<<SendBody(request,
                                       create_response(request, rendered.html, FALSE,
                                           "text/html; charset=utf-8"))>>,
                                   FALSE, {resolved_path})
              IN  Rendered(render_markdown(FileBytes(resolved_path)))
         ELSE Outcome(<<SendBody(request,
                          create_response(request, FileBytes(resolved_path),
                              FALSE, ""))>>,
                      FALSE, {resolved_path})

\* Route answering a path that leaves the root with 403.
Route_distinguishes(request, ioOut) ==
    IF request.method \notin ALLOWED_METHODS
    THEN After(<<"method_check">>, Outcome(<<R405>>, FALSE, {}))
    ELSE LET resolved_path == validate_path(request.path)
         IN  IF resolved_path = None
             THEN (IF validate_path_unchecked(request.path) = None
                   THEN After(<<"method_check", "validate_path">>,
                              Outcome(<<R404>>, FALSE, {}))
                   ELSE After(<<"method_check", "validate_path">>,
                              Outcome(<<R403>>, FALSE, {})))
             ELSE After(<<"method_check", "validate_path", "serve">>,
                        IF resolved_path \in Dirs
                        THEN ServeDirectory(request, resolved_path, ioOut)
                        ELSE ServeFile(request, resolved_path, ioOut))

\* Route resolving the path before it looks at the method.
Route_resolves_first(request, ioOut) ==
    LET resolved_path == validate_path(request.path)
    IN  IF resolved_path = None
        THEN After(<<"validate_path">>, Outcome(<<R404>>, FALSE, {}))
        ELSE IF request.method \notin ALLOWED_METHODS
        THEN After(<<"validate_path", "method_check">>, Outcome(<<R405>>, FALSE, {}))
        ELSE After(<<"validate_path", "method_check", "serve">>,
                   IF resolved_path \in Dirs
                   THEN ServeDirectory(request, resolved_path, ioOut)
                   ELSE ServeFile(request, resolved_path, ioOut))

\* From the method check to the response.
Route(request, ioOut) ==
    IF request.method \notin ALLOWED_METHODS
    THEN After(<<"method_check">>, Outcome(<<R405>>, FALSE, {}))
    ELSE LET resolved_path == validate_path(request.path)
         IN  IF resolved_path = None
             THEN After(<<"method_check", "validate_path">>,
                        Outcome(<<R404>>, FALSE, {}))
             ELSE After(<<"method_check", "validate_path", "serve">>,
                        IF resolved_path \in Dirs
                        THEN ServeDirectory(request, resolved_path, ioOut)
                        ELSE ServeFile(request, resolved_path, ioOut))

\* handle_client with writer.close() after the response instead of in a
\* finally clause: the early returns leave the connection open.
handle_client_noclose(stream, ioOut) ==
    LET rh == read_headers(stream)
        early(writes, steps) ==
            [writes |-> writes, accessed |-> {}, stages |-> steps,
             reads |-> rh.reads, next |-> "done", closed |-> 0]
    IN  IF rh.raises = "ValueError" THEN early(<<R431>>, <<"read_headers">>)
        ELSE IF rh.raises # "" THEN early(<<>>, <<"read_headers">>)
        ELSE IF rh.text = <<>> THEN early(<<>>, <<"read_headers">>)
        ELSE LET request == parse_request(rh.text)
             IN  IF ~request.ok
                 THEN early(<<R400>>, <<"read_headers", "parse_request">>)
                 ELSE LET Routed(r) ==
                              [writes |-> r.writes, accessed |-> r.accessed,
                               stages |-> <<"read_headers", "parse_request">> \o r.stages,
                               reads |-> rh.reads,
                               next |-> IF r.raised THEN "done" ELSE "draining",
                               closed |-> 0]
                      IN  Routed(Route(request, ioOut))

\* The handler from the header read up to its next suspension point:
\* next = "draining" where it reached writer.write(response) and awaits
\* drain, "closing" where it left the try block (a return or an exception)
\* and the finally clause called writer.close().
handle_client(stream, ioOut) ==
    LET rh == read_headers(stream)
        early(writes, steps) ==
            [writes |-> writes, accessed |-> {}, stages |-> steps,
             reads |-> rh.reads, next |-> "closing", closed |-> 1]
    IN  IF rh.raises = "ValueError" THEN early(<<R431>>, <<"read_headers">>)
        ELSE IF rh.raises # "" THEN early(<<>>, <<"read_headers">>)
        ELSE IF rh.text = <<>> THEN early(<<>>, <<"read_headers">>)
        ELSE LET request == parse_request(rh.text)
             IN  IF ~request.ok
                 THEN early(<<R400>>, <<"read_headers", "parse_request">>)
                 ELSE LET Routed(r) ==
                              [writes |-> r.writes, accessed |-> r.accessed,
                               stages |-> <<"read_headers", "parse_request">> \o r.stages,
                               reads |-> rh.reads,
                               next |-> IF r.raised THEN "closing" ELSE "draining",
                               closed |-> IF r.raised THEN 1 ELSE 0]
                      IN  Routed(Route(request, ioOut))

---------------------------------------------------------------------------
(* The connection tasks *)

NoStream == [kind |-> "none", lines |-> <<>>]

ConnInit ==
    /\ pc = [c \in Conns |-> "idle"]
    /\ inp = [c \in Conns |-> NoStream]
    /\ io = [c \in Conns |-> "ok"]
    /\ written = [c \in Conns |-> <<>>]
    /\ closes = [c \in Conns |-> 0]
    /\ accessed = [c \in Conns |-> {}]
    /\ stages = [c \in Conns |-> <<>>]
    /\ reads = [c \in Conns |-> 0]

\* The listener accepts a connection and starts handle_client, which runs
\* to its first await (the header read).
Accept(c) ==
    /\ pc[c] = "idle"
    /\ pc' = [pc EXCEPT ![c] = "reading"]
    /\ UNCHANGED <<inp, io, written, closes, accessed, stages, reads, doc, raceVars>>

\* Handle where a handler that ends on an exception takes the other
\* connection tasks down with it.
Handle_aborting(c, streams) ==
    /\ pc[c] = "reading"
    /\ \E stream \in streams, ioOut \in IoOutcomes :
       \E h \in {handle_client(stream, ioOut)} :
          LET failed == h.next = "closing" /\ h.writes = <<>>
          IN  /\ ioOut = "ok" \/ h.accessed # {}
              /\ inp' = [inp EXCEPT ![c] = stream]
              /\ io' = [io EXCEPT ![c] = ioOut]
              /\ written' = [written EXCEPT ![c] = h.writes]
              /\ accessed' = [accessed EXCEPT ![c] = h.accessed]
              /\ stages' = [stages EXCEPT ![c] = h.stages]
              /\ reads' = [reads EXCEPT ![c] = h.reads]
              /\ closes' = [d \in Conns |->
                               IF d = c THEN closes[d] + h.closed
                               ELSE IF failed /\ pc[d] \in {"reading", "draining"}
                                    THEN closes[d] + 1 ELSE closes[d]]
              /\ pc' = [d \in Conns |->
                           IF d = c THEN h.next
                           ELSE IF failed /\ pc[d] \in {"reading", "draining"}
                                THEN "closing" ELSE pc[d]]
    /\ UNCHANGED <<doc, raceVars>>

\* The header read completes with what the client sent, and the handler
\* runs on without suspension.  The filesystem's answer is part of the input
\* only where the handler asks the filesystem.
Handle(c, streams) ==
    /\ pc[c] = "reading"
    /\ \E stream \in streams, ioOut \in IoOutcomes :
       \E h \in {handle_client(stream, ioOut)} :
              /\ ioOut = "ok" \/ h.accessed # {}
              /\ inp' = [inp EXCEPT ![c] = stream]
              /\ io' = [io EXCEPT ![c] = ioOut]
              /\ written' = [written EXCEPT ![c] = h.writes]
              /\ accessed' = [accessed EXCEPT ![c] = h.accessed]
              /\ closes' = [closes EXCEPT ![c] = @ + h.closed]
              /\ stages' = [stages EXCEPT ![c] = h.stages]
              /\ reads' = [reads EXCEPT ![c] = h.reads]
              /\ pc' = [pc EXCEPT ![c] = h.next]
    /\ UNCHANGED <<doc, raceVars>>

\* await writer.drain() returns or raises; either way the finally clause
\* calls writer.close().
Drain(c) ==
    /\ pc[c] = "draining"
    /\ pc' = [pc EXCEPT ![c] = "closing"]
    /\ closes' = [closes EXCEPT ![c] = @ + 1]
    /\ UNCHANGED <<inp, io, written, accessed, stages, reads, doc, raceVars>>

\* await writer.wait_closed() ends and the handler returns.
WaitClosed(c) ==
    /\ pc[c] = "closing"
    /\ pc' = [pc EXCEPT ![c] = "done"]
    /\ UNCHANGED <<inp, io, written, closes, accessed, stages, reads, doc, raceVars>>

---------------------------------------------------------------------------
(* The start-up race: attempt_server and run_server_on_available_port *)

Ports == 1..MaxPorts

\* What the environment does to the attempt on a port: the bind fails, one
\* of the two pings cannot connect or reads an empty response, or all pass.
Fates == {"BindUnavailable", "LoopbackRefused", "LoopbackEmpty",
          "WildcardRefused", "WildcardEmpty", "Ok"}

InFlight == {"start", "ping_loopback", "ping_wildcard", "closing"}

\* task.done()
Done(p) == task[p] \in {"returned", "failed", "cancelled"}

RaceInit ==
    /\ task = [p \in Ports |-> "start"]
    /\ listener = [p \in Ports |-> "none"]
    /\ fate \in [Ports -> Fates]
    /\ coord = "waiting"
    /\ queue = <<>>
    /\ consumed = {}
    /\ serving = {}

\* await asyncio.start_server(...): the bind fails and the attempt raises
\* OSError, or the listener is bound and accepting.
StartServer(p) ==
    /\ task[p] = "start"
    /\ IF fate[p] = "BindUnavailable"
       THEN /\ task' = [task EXCEPT ![p] = "failed"]
            /\ queue' = Append(queue, p)
            /\ UNCHANGED listener
       ELSE /\ task' = [task EXCEPT ![p] = "ping_loopback"]
            /\ listener' = [listener EXCEPT ![p] = "open"]
            /\ UNCHANGED queue
    /\ UNCHANGED <<fate, coord, consumed, serving, connVars, doc>>

\* The failing attempt raising without closing its server.
PingFailed_noclose(p) ==
    /\ task' = [task EXCEPT ![p] = "closing"]
    /\ UNCHANGED <<listener, queue>>

\* except OSError: server.close(), then await server.wait_closed().
PingFailed(p) ==
    /\ task' = [task EXCEPT ![p] = "closing"]
    /\ listener' = [listener EXCEPT ![p] = "closed"]
    /\ UNCHANGED queue

\* ping_server("127.0.0.1", port)
PingLoopback(p) ==
    /\ task[p] = "ping_loopback"
    /\ IF fate[p] \in {"LoopbackRefused", "LoopbackEmpty"}
       THEN PingFailed(p)
       ELSE /\ task' = [task EXCEPT ![p] = "ping_wildcard"]
            /\ UNCHANGED <<listener, queue>>
    /\ UNCHANGED <<fate, coord, consumed, serving, connVars, doc>>

\* ping_server("0.0.0.0", port); when it passes the attempt returns
\* (port, server).
PingWildcard(p) ==
    /\ task[p] = "ping_wildcard"
    /\ IF fate[p] \in {"WildcardRefused", "WildcardEmpty"}
       THEN PingFailed(p)
       ELSE /\ task' = [task EXCEPT ![p] = "returned"]
            /\ queue' = Append(queue, p)
            /\ UNCHANGED listener
    /\ UNCHANGED <<fate, coord, consumed, serving, connVars, doc>>

\* server.wait_closed() ends and the attempt raises OSError.
RaiseAfterClose(p) ==
    /\ task[p] = "closing"
    /\ task' = [task EXCEPT ![p] = "failed"]
    /\ queue' = Append(queue, p)
    /\ UNCHANGED <<listener, fate, coord, consumed, serving, connVars, doc>>

\* CancelledError is thrown into a cancelled attempt at the await it stands
\* on.  It is no OSError and no Exception: no handler of attempt_server or
\* ping_server catches it, so the attempt ends without touching its server.
Unwind(p) ==
    /\ task[p] = "cancelling"
    /\ task' = [task EXCEPT ![p] = "cancelled"]
    /\ UNCHANGED <<listener, fate, coord, queue, consumed, serving, connVars, doc>>

\* The coordinator awaits the next finished attempt and it returned a server:
\* every task that is not done is cancelled, and the coordinator enters
\* server.serve_forever().
Promote ==
    /\ coord = "waiting"
    /\ queue # <<>>
    /\ task[Head(queue)] = "returned"
    /\ task' = [p \in Ports |-> IF task[p] \in InFlight THEN "cancelling" ELSE task[p]]
    /\ serving' = serving \cup {Head(queue)}
    /\ consumed' = consumed \cup {Head(queue)}
    /\ queue' = Tail(queue)
    /\ coord' = "serving"
    /\ UNCHANGED <<listener, fate, connVars, doc>>

\* A failed attempt ending the race.
AttemptFailed_aborts ==
    /\ coord = "waiting"
    /\ queue # <<>>
    /\ task[Head(queue)] = "failed"
    /\ consumed' = consumed \cup {Head(queue)}
    /\ queue' = Tail(queue)
    /\ coord' = "exited"
    /\ UNCHANGED <<task, listener, fate, serving, connVars, doc>>

\* The loop never ending after the last failure.
AttemptFailed_stalls ==
    /\ coord = "waiting"
    /\ queue # <<>>
    /\ task[Head(queue)] = "failed"
    /\ consumed' = consumed \cup {Head(queue)}
    /\ queue' = Tail(queue)
    /\ coord' = "waiting"
    /\ UNCHANGED <<task, listener, fate, serving, connVars, doc>>

\* The coordinator awaits the next finished attempt and it raised: the
\* exception is logged and the loop goes on; after the last task the loop
\* ends and the function returns.
AttemptFailed ==
    /\ coord = "waiting"
    /\ queue # <<>>
    /\ task[Head(queue)] = "failed"
    /\ consumed' = consumed \cup {Head(queue)}
    /\ queue' = Tail(queue)
    /\ coord' = IF consumed' = Ports THEN "exited" ELSE "waiting"
    /\ UNCHANGED <<task, listener, fate, serving, connVars, doc>>

---------------------------------------------------------------------------
(* Specifications *)

\* The race as it stands while connections are handled: port 1 serves, the
\* other attempts could not bind.
RaceServing ==
    /\ task = [p \in Ports |-> IF p = 1 THEN "returned" ELSE "failed"]
    /\ listener = [p \in Ports |-> IF p = 1 THEN "open" ELSE "none"]
    /\ fate = [p \in Ports |-> IF p = 1 THEN "Ok" ELSE "BindUnavailable"]
    /\ coord = "serving"
    /\ queue = <<>>
    /\ consumed = Ports
    /\ serving = {1}

Init == ConnInit /\ RaceServing /\ doc = Readme

ConnStep(c, streams) ==
    \/ Accept(c)
    \/ Handle(c, streams)
    \/ Drain(c)
    \/ WaitClosed(c)

\* Requests for files of each kind and for directories.
TypeTargets ==
    {<<"/">>, <<"/", "sub">>, <<"/", "sub", "/">>, <<"/", "sub", "/", "in", "/">>,
     <<"/", "a.txt">>, <<"/", "sub", "/", "a.txt">>, <<"/", "sub", "/", "Zed">>,
     <<"/", "sub", "/", "b.md">>, <<"/", "sub", "/", "in", "/", "B.MD">>,
     <<"/", "sub", "/", "in", "/", "l.md">>, <<"/", "sub", "/", "in", "/", "b.md">>}

TypeStreams ==
    {[kind |-> "text", lines |-> <<RequestLine(m, t, v), CRLF>>] :
        m \in {"GET", "HEAD"}, t \in TypeTargets, v \in Versions}

TypeNext == ConnStep(1, TypeStreams)

TypeSpec == Init /\ [][TypeNext]_vars

\* The requests for the Markdown file.
MdStreams ==
    {[kind |-> "text",
      lines |-> <<RequestLine(m, <<"sub", "/", "b.md">>, "HTTP/1.1"), CRLF>>] :
        m \in {"GET", "HEAD"}}

\* One connection asks for the Markdown file, whatever its text.
MdInit == ConnInit /\ RaceServing /\ doc \in Docs

MdNext == ConnStep(1, MdStreams)

MdSpec == MdInit /\ [][MdNext]_vars

\* One connection, any request.
Next == ConnStep(1, Streams)

Spec == Init /\ [][Next]_vars

\* Two connections handled concurrently.
ConcNext == \E c \in Conns : ConnStep(c, ConcStreams)

ConcSpec == Init /\ [][ConcNext]_vars

RaceNext ==
    \/ \E p \in Ports : StartServer(p)
    \/ \E p \in Ports : PingLoopback(p)
    \/ \E p \in Ports : PingWildcard(p)
    \/ \E p \in Ports : RaiseAfterClose(p)
    \/ \E p \in Ports : Unwind(p)
    \/ Promote
    \/ AttemptFailed

RaceStart == ConnInit /\ RaceInit /\ doc = Readme

RaceSpec == RaceStart /\ [][RaceNext]_vars

\* The event loop runs every task that is ready to run.
FairRaceSpec == RaceSpec /\ WF_vars(RaceNext)

---------------------------------------------------------------------------
(* Properties of the connection handler *)

\* The handler has run past the header read.
Handled(c) == pc[c] \in {"draining", "closing", "done"}

\* The request parse_request built for the connection, where it built one.
Parsed(c) ==
    /\ Handled(c)
    /\ read_headers(inp[c]).raises = ""
    /\ read_headers(inp[c]).text # <<>>
    /\ parse_request(read_headers(inp[c]).text).ok

Req(c) == parse_request(read_headers(inp[c]).text)

\* Where the request path leads once joined onto the root and resolved.
Destination(path) == Resolve(ROOT, Segments(LStrip(path)))

ResolutionFails(path) == HasNul(LStrip(path))

LeavesRoot(path) ==
    ResolutionFails(path) \/ ~IsPrefix(ROOT, Destination(path))

GenuineNotFound(path) == ~LeavesRoot(path) /\ ~Exists(Destination(path))

StatusCode(c) == written[c][1].status[2]

\* C1: a GET or HEAD request whose path resolves outside the root, or whose
\* resolution fails, is answered with exactly one response, a 404, and the
\* handler reads or lists no node outside the root for it.
C1_EscapeIs404 ==
    \A c \in Conns :
        Parsed(c) /\ Req(c).method \in ALLOWED_METHODS /\ LeavesRoot(Req(c).path)
            => /\ Len(written[c]) = 1
               /\ StatusCode(c) = "404"
               /\ \A n \in accessed[c] : IsPrefix(ROOT, n)

\* A finished GET whose path leads through the symbolic link to the file
\* outside the root, answered 404.
C1_Witness ==
    \E c \in Conns :
        /\ pc[c] = "done" /\ Parsed(c) /\ Req(c).method = "GET"
        /\ ~ResolutionFails(Req(c).path)
        /\ Destination(Req(c).path) = <<"secret">>
        /\ \E i \in 1..Len(Req(c).path) : Req(c).path[i] = "out"
        /\ written[c] = <<R404>>

\* C2: two requests with the same method and version, one for a path that
\* leaves the root and one for a path inside the root that does not exist,
\* get the same bytes.
C2_EscapeLooksLikeNotFound ==
    \A c1, c2 \in Conns :
        /\ Parsed(c1) /\ Parsed(c2)
        /\ Req(c1).method = Req(c2).method
        /\ Req(c1).version = Req(c2).version
        /\ LeavesRoot(Req(c1).path)
        /\ GenuineNotFound(Req(c2).path)
        => written[c1] = written[c2]

\* Both runs are finished GETs: one escaped the root, the other asked for a
\* missing name, and each has its response.
C2_Witness ==
    \E c1, c2 \in Conns :
        /\ pc[c1] = "done" /\ pc[c2] = "done"
        /\ Parsed(c1) /\ Parsed(c2)
        /\ Req(c1).method = "GET" /\ Req(c2).method = "GET"
        /\ LeavesRoot(Req(c1).path)
        /\ GenuineNotFound(Req(c2).path)
        /\ Len(written[c1]) = 1 /\ Len(written[c2]) = 1

WellFormedStatus(status) ==
    /\ Len(status) = 3
    /\ status[1] \in Versions
    /\ status[2] \in {"200", "301", "400", "403", "404", "405", "431", "500"}

\* C9, for the connections that sent a request line: before the connection
\* is closed one response with a well-formed status line is written, and a
\* filesystem failure that is no permission error is answered 500.
C9_StatusLineBeforeClose ==
    \A c \in Conns :
        pc[c] \in {"closing", "done"} /\ inp[c].kind = "text"
            => /\ Len(written[c]) = 1
               /\ WellFormedStatus(written[c][1].status)
               /\ io[c] = "OSError" => StatusCode(c) = "500"

HasHeader(w, name) == \E i \in 1..Len(w.headers) : w.headers[i][1] = name

HeaderValue(w, name) ==
    w.headers[CHOOSE i \in 1..Len(w.headers) : w.headers[i][1] = name][2]

\* h is a HEAD and g a GET for the same target, version and filesystem
\* answer, and the path resolves to an existing node under the root.
HeadGetPair(h, g) ==
    /\ Parsed(h) /\ Parsed(g)
    /\ Req(h).method = "HEAD" /\ Req(g).method = "GET"
    /\ Req(h).path = Req(g).path
    /\ Req(h).version = Req(g).version
    /\ io[h] = io[g]
    /\ ~LeavesRoot(Req(h).path)
    /\ Exists(Destination(Req(h).path))

HeaderText(c) == read_headers(inp[c]).text

\* The handler got a header text that is not empty.
GotText(c) ==
    Handled(c) /\ read_headers(inp[c]).raises = "" /\ HeaderText(c) # <<>>

\* The answer of a request that failed parsing: a 400 and nothing after the
\* parse.
RejectedAtParse(c) ==
    /\ written[c] = <<R400>>
    /\ stages[c] = <<"read_headers", "parse_request">>
    /\ accessed[c] = {}

FirstLineWithTokensHasFewerThan(text, n) ==
    \E i \in 1..Len(text) :
        /\ text[i].ntok > 0 /\ text[i].ntok < n
        /\ \A j \in 1..(i - 1) : text[j].ntok = 0

RECURSIVE BytesOf(_, _)
BytesOf(lines, k) == IF k = 0 THEN 0 ELSE BytesOf(lines, k - 1) + lines[k].size

\* The first k lines come before the terminator and exceed the budget.
ExceedsAt(lines, k) ==
    /\ \A j \in 1..k : lines[j] # CRLF
    /\ BytesOf(lines, k) > MAX_HEADER_SIZE

\* C12: when the bytes read exceed the header budget before the terminator
\* is seen, the one response is a 431, parse_request is not called, no line
\* after the one that crossed the budget is read, and the connection is
\* closed.
C12_OversizeIs431 ==
    \A c \in Conns :
        /\ Handled(c) /\ inp[c].kind # "reset"
        /\ \E k \in 1..Len(inp[c].lines) : ExceedsAt(inp[c].lines, k)
        => /\ written[c] = <<R431>>
           /\ stages[c] = <<"read_headers">>
           /\ ExceedsAt(inp[c].lines, reads[c])
           /\ \A k \in 1..(reads[c] - 1) : ~ExceedsAt(inp[c].lines, k)
           /\ pc[c] \in {"closing", "done"} /\ closes[c] = 1

\* A finished connection whose third line crossed the budget: answered 431
\* with the terminator it sent after that line left unread.
C12_Witness ==
    \E c \in Conns :
        /\ pc[c] = "done" /\ inp[c].kind = "text"
        /\ Len(inp[c].lines) = 4 /\ inp[c].lines[4] = CRLF
        /\ ExceedsAt(inp[c].lines, 3)
        /\ reads[c] = 3
        /\ written[c] = <<R431>>

\* C13: every response written, whatever its status, carries the header
\* Connection: close.
C13_EveryResponseSaysConnectionClose ==
    \A c \in Conns :
        \A i \in 1..Len(written[c]) :
            /\ HasHeader(written[c][i], "Connection")
            /\ HeaderValue(written[c][i], "Connection") = "close"

\* What belongs to one connection task.
Local(c) ==
    <<pc[c], inp[c], io[c], written[c], closes[c], accessed[c], stages[c], reads[c]>>

StageIndex(c, step) ==
    IF \E i \in 1..Len(stages[c]) : stages[c][i] = step
    THEN CHOOSE i \in 1..Len(stages[c]) : stages[c][i] = step
    ELSE 0

\* C20: the method check comes before the path resolution.  A parsed
\* request whose upper-cased method is not GET or HEAD is answered 405
\* whatever its path; validate_path is not called and no node is read or
\* listed.  Where validate_path is called, the method check ran before it.
C20_MethodCheckBeforePathResolution ==
    \A c \in Conns :
        /\ Parsed(c) /\ Req(c).method \notin ALLOWED_METHODS
            => /\ written[c] = <<R405>>
               /\ StageIndex(c, "validate_path") = 0
               /\ StageIndex(c, "serve") = 0
               /\ accessed[c] = {}
        /\ StageIndex(c, "validate_path") > 0
            => /\ StageIndex(c, "method_check") > 0
               /\ StageIndex(c, "method_check") < StageIndex(c, "validate_path")

\* A finished POST for a path that leads out of the root through the
\* symbolic link, answered 405.
C20_Witness ==
    \E c \in Conns :
        /\ pc[c] = "done" /\ Parsed(c) /\ Req(c).method = "POST"
        /\ LeavesRoot(Req(c).path)
        /\ \E i \in 1..Len(Req(c).path) : Req(c).path[i] = "out"
        /\ written[c] = <<R405>>

\* The connection got the listing of a directory: a GET for an existing
\* directory under the root, with trailing slash, answered 200.
GotListing(c) ==
    /\ Parsed(c) /\ Req(c).method = "GET"
    /\ ~LeavesRoot(Req(c).path)
    /\ Destination(Req(c).path) \in Dirs
    /\ Len(written[c]) = 1 /\ StatusCode(c) = "200"

Rows(c) == written[c][1].body

\* C19: in the rows of a directory listing the parent row is there, as the
\* first row, exactly when the directory is not the root; the other rows
\* are the entries of the directory, every directory before every file and
\* entries of the same kind in the order of their lower-cased names.
C19_ListingOrder ==
    \A c \in Conns :
        GotListing(c) =>
            LET listed == Destination(Req(c).path)
                first == IF listed = ROOT THEN 1 ELSE 2
            IN  /\ listed # ROOT => Rows(c) # <<>> /\ Rows(c)[1] = ParentRow
                /\ \A i \in first..Len(Rows(c)) : ~Rows(c)[i].parent
                /\ {Rows(c)[i].name : i \in first..Len(Rows(c))}
                       = {Last(n) : n \in Children(listed)}
                /\ Len(Rows(c)) = Cardinality(Children(listed)) + first - 1
                /\ \A i, j \in first..Len(Rows(c)) :
                      i < j =>
                        /\ Rows(c)[j].isdir => Rows(c)[i].isdir
                        /\ Rows(c)[i].isdir = Rows(c)[j].isdir
                             => LexRank(Lower(Rows(c)[i].name))
                                  < LexRank(Lower(Rows(c)[j].name))

\* The finished listing of the directory sub: the parent row, the
\* directory in, then the files a.txt, b.md and Zed.
C19_Witness ==
    \E c \in Conns :
        /\ pc[c] = "done" /\ GotListing(c)
        /\ Destination(Req(c).path) = <<"srv", "sub">>
        /\ [i \in 1..Len(Rows(c)) |-> Rows(c)[i].name]
               = <<"..", "in", "a.txt", "b.md", "Zed">>

\* The connection asked, with GET or HEAD, for a path that resolves to an
\* existing directory under the root.
AskedDirectory(c) ==
    /\ Parsed(c) /\ Req(c).method \in ALLOWED_METHODS
    /\ ~LeavesRoot(Req(c).path)
    /\ Destination(Req(c).path) \in Dirs

\* C21: a GET or HEAD request for an existing directory under the root is
\* answered, where the parsed path does not end with a slash, by a 301 whose
\* Location is the path between one leading and one trailing slash, and no
\* listing is generated; where it ends with a slash, by a 200 that is the
\* listing of the directory.
C21_DirectoryRedirectOrListing ==
    \A c \in Conns :
        AskedDirectory(c) =>
            /\ Len(written[c]) = 1
            /\ IF ~EndsWithSlash(Req(c).path)
               THEN /\ StatusCode(c) = "301"
                    /\ HeaderValue(written[c][1], "Location")
                           = <<"/">> \o Req(c).path \o <<"/">>
                    /\ written[c][1].body = <<>>
                    /\ accessed[c] = {}
               ELSE /\ StatusCode(c) = "200"
                    /\ HeaderValue(written[c][1], "Content-Type")
                           = "text/html; charset=utf-8"
                    /\ accessed[c] = {Destination(Req(c).path)}
                    /\ Req(c).method = "GET" =>
                          written[c][1].body
                              = generate_directory_listing(Destination(Req(c).path))

\* The connection was answered with a 301.
Redirected(c) ==
    Parsed(c) /\ Len(written[c]) = 1 /\ StatusCode(c) = "301"

\* Connection d asks for the path the Location header of c's response names.
Follows(d, c) ==
    /\ Redirected(c)
    /\ Parsed(d) /\ Req(d).method \in ALLOWED_METHODS
    /\ StripLines(HeaderText(d))[1].target
           = HeaderValue(written[c][1], "Location")

\* C22: redirects do not loop: a request for the path in the Location header
\* of a 301 response is not answered with a 301, the raw paths made only of
\* slashes included.
C22_RedirectsDoNotLoop ==
    \A c, d \in Conns :
        c # d /\ Follows(d, c) => ~Redirected(d)

\* The connection was answered with a 200, and the node its path resolves to.
Got200(c) == Parsed(c) /\ Len(written[c]) = 1 /\ StatusCode(c) = "200"

Served(c) == Destination(Req(c).path)

\* The name ends in .md, in any letter case.
IsMarkdownName(name) == name \in {"b.md", "B.MD", "l.md"}

\* The type inferred from the extension of the request path, with the
\* charset parameter for the types that start with text/.
InferredType(path) ==
    CASE guess_type(path) = ""              -> "application/octet-stream"
      [] guess_type(path) = "text/plain"    -> "text/plain; charset=utf-8"
      [] guess_type(path) = "text/markdown" -> "text/markdown; charset=utf-8"
      [] OTHER                              -> guess_type(path)

\* C26: the Content-Type of a 200 response is text/html; charset=utf-8 for
\* a file whose name ends in .md in any letter case (the override), else
\* text/html; charset=utf-8 for a directory listing, else the type inferred
\* from the extension of the request path: application/octet-stream where
\* it is unknown, with the charset exactly for the text types.
C26_ContentTypeOrder ==
    \A c \in Conns :
        Got200(c) =>
            HeaderValue(written[c][1], "Content-Type") =
                IF Served(c) \in Files /\ IsMarkdownName(Last(Served(c)))
                THEN "text/html; charset=utf-8"
                ELSE IF Served(c) \in Dirs
                THEN "text/html; charset=utf-8"
                ELSE InferredType(Req(c).path)

\* The Markdown file with the upper-case suffix was served as a page.
C26_Witness ==
    \E c \in Conns :
        /\ pc[c] = "done" /\ Got200(c) /\ Req(c).method = "GET"
        /\ Served(c) = <<"srv", "sub", "in", "B.MD">>
        /\ HeaderValue(written[c][1], "Content-Type") = "text/html; charset=utf-8"

---------------------------------------------------------------------------
(* Properties of render_markdown and highlight_python_code, on the         *)
(* Markdown file as it is served                                           *)

\* The connection asked for the Markdown file with GET or HEAD and the file
\* was read.
AskedMarkdown(c) ==
    /\ Parsed(c) /\ Req(c).method \in ALLOWED_METHODS
    /\ validate_path(Req(c).path) = <<"srv", "sub", "b.md">>
    /\ io[c] = "ok"

\* The blocks of the page a GET was answered with.
GotPage(c) ==
    /\ AskedMarkdown(c) /\ Req(c).method = "GET"
    /\ Len(written[c]) = 1 /\ StatusCode(c) = "200"

PageBlocks(c) == Tail(written[c][1].body)

\* The lines the loop of render_markdown runs over, and its locals when it
\* has run over the first k of them.
LoopLines == CleanedLines(doc)

LoopState(k) == RenderLines(LoopLines, k, CollectRefs(doc))

IsListLine(line) == StartsWith(line, "-", " ")

\* C15: when the line after an open list is no list line (a fence
\* delimiter, a rule, a heading, a blockquote, a paragraph or a blank
\* line), processing that line ends the list: the <ul> with the buffered
\* items is the next block emitted, before the block of that line, and a
\* later item starts another list.
C15_ListFlushedAtFirstOtherLine ==
    \A c \in Conns :
        GotPage(c) =>
            /\ PageBlocks(c) = Converted(doc).html_lines
            /\ \A k \in 1..Len(LoopLines) :
                 /\ LoopState(k - 1).in_list /\ ~LoopState(k - 1).in_code_block
                 /\ ~IsListLine(LoopLines[k])
                 => /\ ~LoopState(k).in_list
                    /\ Len(LoopState(k).html_lines) > Len(LoopState(k - 1).html_lines)
                    /\ LoopState(k).html_lines[Len(LoopState(k - 1).html_lines) + 1]
                         = Block("ul", "", LoopState(k - 1).list_buffer)

\* The label of the reference link that makes up the line, <<>> if the line
\* is no such link.
LinkLabel(line) ==
    LET q == IndexOf(line, "]", 2)
    IN  IF /\ Len(line) >= 6 /\ line[1] = "[" /\ q >= 3 /\ Len(line) > q + 2
           /\ line[q + 1] = "[" /\ IndexOf(line, "]", q + 2) = Len(line)
        THEN SubSeq(line, q + 2, Len(line) - 1)
        ELSE <<>>

\* The definition lines of the file whose label is spelled as given, and
\* those whose label is the given one up to surrounding white space.
DefinedAs(label) ==
    {i \in 1..Len(doc) : RefDefMatch(doc[i]).ok /\ RefDefMatch(doc[i]).label = label}

DefinedUpToSpace(label) ==
    {i \in 1..Len(doc) :
        RefDefMatch(doc[i]).ok /\ StripWs(RefDefMatch(doc[i]).label) = StripWs(label)}

\* C16: a reference link on a paragraph line whose label has a definition
\* line, before or after it, gets the url of a definition of that label as
\* its href; a label with no definition is the href itself; and the
\* definition lines give no block: the page has at most one block for each
\* line that is no definition.
C16_ReferenceLinksResolve ==
    \A c \in Conns :
        GotPage(c) =>
            /\ PageBlocks(c) = Converted(doc).html_lines
            /\ Len(PageBlocks(c)) <= Len(doc) - Cardinality({i \in 1..Len(doc) : RefDefMatch(doc[i]).ok})
            /\ \A k \in 1..Len(LoopLines) :
                 LET label == LinkLabel(LoopLines[k])
                     block == Last(LoopState(k).html_lines)
                 IN  label # <<>> /\ ~LoopState(k - 1).in_code_block
                     => /\ block.tag = "p" /\ Len(block.body) = 1
                        /\ block.body[1].kind = "a"
                        /\ DefinedAs(label) # {}
                             => block.body[1].attr \in
                                  {Concat(RefDefMatch(doc[i]).url) : i \in DefinedUpToSpace(label)}
                        /\ DefinedUpToSpace(label) = {}
                             => block.body[1].attr = Concat(label)

\* C17: a Markdown file that can be read is answered 200, never 500, also
\* when the content of a python fence does not tokenize.
C17_UntokenizableFenceStill200 ==
    \A c \in Conns :
        AskedMarkdown(c) => Len(written[c]) = 1 /\ StatusCode(c) = "200"

\* The text left when the span tags are taken out of highlighted code.
StripSpans(pieces) == Concat([i \in 1..Len(pieces) |-> pieces[i].text])

\* C18: for the content of a python fence that tokenizes, the highlighted
\* code without its span tags is the content itself.
C18_HighlightKeepsTheText ==
    \A c \in Conns :
        GotPage(c) =>
            /\ PageBlocks(c) = Converted(doc).html_lines
            /\ \A k \in 1..Len(LoopLines) :
                 /\ LoopLines[k] # <<>> /\ LoopLines[k][1] = FENCE
                 /\ LoopState(k - 1).in_code_block
                 /\ LoopState(k - 1).code_lang = "python"
                 => LET block == Last(LoopState(k).html_lines)
                    IN  /\ block.tag = "pre" /\ block.attr = "python"
                        /\ StripSpans(block.body) = JoinLines(LoopState(k - 1).code_block)


\* C23: the modes of render_markdown exclude each other: when the loop has
\* run over any number of lines of the file, in_list and in_code_block are
\* not both true.
C23_ModesExcludeEachOther ==
    \A c \in Conns :
        AskedMarkdown(c) =>
            \A k \in 0..Len(LoopLines) :
                ~(LoopState(k).in_list /\ LoopState(k).in_code_block)

\* A line of the file that starts with the fence marker, and the number of
\* such lines before line i.
IsFenceLine(line) == line # <<>> /\ line[1] = FENCE

FencesBefore(i) == Cardinality({j \in 1..(i - 1) : IsFenceLine(doc[j])})

\* Line o of the file opens a fence and line e is the delimiter that closes it.
ClosedFence(o, e) ==
    /\ o \in 1..Len(doc) /\ e \in (o + 1)..Len(doc)
    /\ IsFenceLine(doc[o]) /\ FencesBefore(o) % 2 = 0
    /\ IsFenceLine(doc[e])
    /\ \A j \in (o + 1)..(e - 1) : ~IsFenceLine(doc[j])

InClosedFence(i) == \E o \in 1..Len(doc), e \in 1..Len(doc) : ClosedFence(o, e) /\ o < i /\ i < e

\* The first k lines of the file without those inside a closed fence.
RECURSIVE OutsideFences(_)
OutsideFences(k) ==
    IF k = 0 THEN <<>>
    ELSE IF InClosedFence(k) THEN OutsideFences(k - 1)
    ELSE Append(OutsideFences(k - 1), doc[k])

PreBlocks(c) == SelectSeq(PageBlocks(c), LAMBDA b : b.tag = "pre")

\* C24: the lines of the file between an opening fence delimiter and its
\* closing delimiter are, all of them and in order, the content of the
\* <pre><code> block of that fence (the content handed to the highlighter
\* where the language is python), a line of the form of a reference
\* definition included, and such a line adds nothing to the reference table.
C24_FencedLinesVerbatim ==
    \A c \in Conns :
        GotPage(c) =>
            /\ PageBlocks(c) = Converted(doc).html_lines
            /\ CollectRefs(doc) = CollectRefs(OutsideFences(Len(doc)))
            /\ \A o \in 1..Len(doc), e \in 1..Len(doc) :
                 ClosedFence(o, e) =>
                    LET n == (FencesBefore(e) + 1) \div 2
                        between == SubSeq(doc, o + 1, e - 1)
                    IN  /\ Len(PreBlocks(c)) >= n
                        /\ PreBlocks(c)[n].body =
                             IF Len(doc[o]) >= 2 /\ doc[o][2] = "python"
                             THEN highlight_python_code(between).pieces
                             ELSE <<Piece("text", "", JoinLines(between))>>

\* Line o of the loop opens a fence that no later line closes.
UnterminatedFence(o) ==
    /\ o \in 1..Len(LoopLines)
    /\ IsFenceLine(LoopLines[o]) /\ ~LoopState(o - 1).in_code_block
    /\ \A j \in (o + 1)..Len(LoopLines) : ~IsFenceLine(LoopLines[j])

\* The <ul> of the list that is open when the loop has run over k lines.
OpenList(k) ==
    IF LoopState(k).in_list
    THEN <<Block("ul", "", LoopState(k).list_buffer)>>
    ELSE <<>>

\* C25: at the end of the file a list that is still open is emitted as one
\* <ul>, the last block of the page; for a fence that was opened and never
\* closed nothing is emitted: the page holds the blocks emitted before the
\* opening delimiter and the open list, no block for a line after the
\* delimiter and no <pre> for the fence.
C25_EndOfDocumentFlush ==
    \A c \in Conns :
        GotPage(c) =>
            /\ LoopState(Len(LoopLines)).in_list =>
                  /\ PageBlocks(c) # <<>>
                  /\ Last(PageBlocks(c))
                         = Block("ul", "", LoopState(Len(LoopLines)).list_buffer)
                  /\ Len(PageBlocks(c)) = Len(LoopState(Len(LoopLines)).html_lines) + 1
            /\ \A o \in 1..Len(LoopLines) :
                  UnterminatedFence(o) =>
                      PageBlocks(c) = LoopState(o - 1).html_lines \o OpenList(o - 1)

\* The page of a file with a list item, an opening fence delimiter and a
\* line after it: the one block is the list.
C25_Witness ==
    \E c \in Conns :
        /\ pc[c] = "done" /\ GotPage(c)
        /\ doc = << <<"-", " ", "a">>, <<FENCE>>, <<"x", "\t", "=", " ", "1">> >>
        /\ UnterminatedFence(2)
        /\ PageBlocks(c) = <<Block("ul", "", <<Piece("li", "", "a")>>)>>
---------------------------------------------------------------------------
(* Properties of the start-up race *)

\* C3: once an attempt is promoted no other attempt stays in flight
\* uncancelled, and an attempt that ends cancelled has no open listener.
C3_CancelledAttemptReleasesListener ==
    /\ coord = "serving" => \A p \in Ports : task[p] \notin InFlight
    /\ \A p \in Ports : task[p] = "cancelled" => listener[p] # "open"

\* C4: exactly one listener is promoted, and once the coordinator serves,
\* the listener of every other attempt that ran to its end (it returned or
\* raised) is not open.  The attempts that ended cancelled are left to C3.
C4_OnlyThePromotedListenerStaysOpen ==
    coord = "serving" =>
        /\ Cardinality(serving) = 1
        /\ \A p \in Ports \ serving :
              task[p] \in {"returned", "failed"} => listener[p] # "open"

\* C5: a port whose bind or self-test fails is never promoted, and the
\* attempt that raised left no open listener: none after a failed bind, a
\* closed one after a failed ping.
C5_FailedPortNeverServes ==
    \A p \in Ports :
        /\ fate[p] # "Ok" => p \notin serving
        /\ task[p] = "failed" =>
              /\ p \notin serving
              /\ listener[p] = IF fate[p] = "BindUnavailable" THEN "none" ELSE "closed"

\* The coordinator serves on one port while another attempt, whose wildcard
\* ping read an empty response, has raised with its listener closed.
C5_Witness ==
    /\ coord = "serving"
    /\ \E p \in Ports :
          /\ fate[p] = "WildcardEmpty"
          /\ task[p] = "failed"
          /\ listener[p] = "closed"
          /\ p \in consumed

\* C6: if some port can be bound and passes its self-test, the coordinator
\* eventually serves, on a port that passed, whatever the other attempts do.
C6_SomePassingPortIsServed ==
    (\E p \in Ports : fate[p] = "Ok")
        ~> (coord = "serving" /\ serving # {} /\ \A p \in serving : fate[p] = "Ok")

\* The coordinator serves after it has met the failure of another attempt.
C6_Witness ==
    /\ coord = "serving"
    /\ \E p \in Ports : task[p] = "failed" /\ p \in consumed /\ p \notin serving

\* C7: if every attempt fails the coordinator returns; it returns only
\* without having served and with no listener open.
C7_AllFailTerminatesClean ==
    /\ [](coord = "exited" =>
            /\ serving = {}
            /\ \A p \in Ports : listener[p] # "open")
    /\ ((\A p \in Ports : fate[p] # "Ok") ~> (coord = "exited"))

\* The coordinator has returned after an attempt bound its port, failed its
\* self-test and closed its listener.
C7_Witness ==
    /\ coord = "exited"
    /\ serving = {}
    /\ \E p \in Ports : listener[p] = "closed"

=============================================================================
